---- MODULE Spec2Model ----
(***************************************************************************)
(* A model of the mycocotb cooperative scheduler: the run queue, the       *)
(* trigger -> waiters map, the simulator phase, the tasks, the triggers    *)
(* and the deferred-write scheduler.                                       *)
(*                                                                         *)
(* Control is at one of four places (variable ctl):                        *)
(*   "sim"   the simulator has control and may fire a registered callback  *)
(*   "loop"  Scheduler._event_loop is at the head of its while loop        *)
(*   "task"  Scheduler._resume_task is inside Task._advance: the           *)
(*           coroutine of current_task is executing user code              *)
(*   "exit"  SystemExit (or an internal exception) left the scheduler      *)
(* The handlers are operators on a record S of the whole program state, so *)
(* that nested calls (kill -> _unschedule -> _react -> _schedule_task)     *)
(* compose; an action applies a handler to the current state and commits   *)
(* the result.                                                             *)
(***************************************************************************)
EXTENDS Integers, Sequences, FiniteSets, TLC

\* ---------------------------------------------------------------- bounds
\* user operations a coroutine performs between two of its awaits
MaxOps == 1
\* schedule_write calls recorded in the Normal phase between two flushes
MaxLog == 3
\* edge trigger objects constructed in one run
MaxEdges == 2
\* handle.set calls recorded in the Normal phase between two flushes
MaxSets == 2

\* ---------------------------------------------------------------- universe
WriteTask == "w"
UserTasks == {"t1", "t2", "t3"}
Tasks == UserTasks \cup {WriteTask}
NoTask == "-"

Handles == {"a", "b"}
Vals == {1, 2}

\* handle.set on LogicArrayObject handles of Width bits; "c" is a constant
SetHandles == {"a", "b", "c"}
Width == 2
\* integers a test passes to set(): 1 fits in Width bits, 4 does not
SetInts == {1, 4}
\* binary strings the simulator returns from get_signal_val_binstr
BinStrs == {<<"0", "1">>, <<"1", "X">>}
Plain(n) == [cls |-> "int", value |-> n]
Deposit(n) == [cls |-> "Deposit", value |-> n]
Force(n) == [cls |-> "Force", value |-> n]
Freeze == [cls |-> "Freeze", value |-> 0]
Release == [cls |-> "Release", value |-> 0]
SetObjs == {Plain(n) : n \in SetInts} \cup {Deposit(n) : n \in SetInts}
             \cup {Force(n) : n \in SetInts} \cup {Freeze, Release}

RW == <<"RW", "-">>
RO == <<"RO", "-">>
NTS == <<"NTS", "-">>
NoTrig == <<"NONE", "-">>
\* handles of the design: clk is a LogicObject (1 bit), bus a
\* LogicArrayObject (4 bits)
Signals == {"clk", "bus"}
LogicObjects == {"clk"}
EdgeClasses == {"RisingEdge", "FallingEdge", "Edge"}
\* the i-th edge trigger object that was constructed
Ed(i) == <<"EDGE", i>>
EdgeTriggers == {Ed(i) : i \in 1..MaxEdges}
GPITriggers == {RW, RO, NTS} \cup EdgeTriggers
TC(t) == <<"TC", t>>
Null(t) == <<"NULL", t>>
WEv(t) == <<"WEV", t>>
\* the _Event that a wait() of task t on the user's Event object created
UEv(t) == <<"UEV", t>>
Triggers == GPITriggers \cup {TC(t) : t \in Tasks} \cup {Null(t) : t \in Tasks}
              \cup {WEv(WriteTask)} \cup {UEv(t) : t \in UserTasks}

NoExc == "-"

VARIABLES
  state,           \* Task._state
  outcome,         \* Task._outcome: "None", "Value", "ValueNone", "Error"
  trig,            \* Task._trigger
  done_callbacks,  \* Task._done_callbacks holds _task_done_callback
  coro,            \* Task._coro: "live" or "closed" (exhausted or closed)
  awaiting,        \* the task in whose Task.__await__ the coroutine is suspended
  trigger2tasks,   \* Scheduler._trigger2tasks, insertion ordered
  scheduled_tasks, \* Scheduler._scheduled_tasks, insertion ordered
  terminate,       \* Scheduler._terminate
  current_task,    \* Scheduler._current_task
  sent,            \* the outcome _resume_task injects into current_task
  sim_phase,       \* mycocotb.sim_phase
  primed,          \* Trigger._primed
  cbhdl,           \* GPITrigger._cbhdl is not None
  sim_cbs,         \* callbacks registered in the simulator, per trigger
  edges,           \* the edge trigger objects constructed so far: class, signal
  write_calls,     \* _write_scheduler._write_calls, insertion ordered
  wp_fired,        \* _writes_pending._fired
  wp_pending,      \* _writes_pending._pending_events
  wpc,             \* position of _do_writes: the await it yields next
  ev_fired,        \* Event._fired of an Event object of the user
  ev_pending,      \* Event._pending_events of that object
  ctl,             \* where control is
  ops,             \* user operations done since the last resumption
  op,              \* the operation that led to this state
  wout,            \* write functions invoked by that operation, in order
  wlog,            \* schedule_write calls in Normal phase since last flush
  wflushed,        \* the wlog that the flush of that operation consumed
  since,           \* tasks that waited on the trigger when the task joined
  pred,            \* earlier waiters woken by the same firing, not yet run
  woke,            \* earlier waiters woken by the firing that woke the task
  wokeBy,          \* the trigger whose firing put the task in the run queue
  wokeHow          \* what fired it: "trigger", "finish", "kill", "cancel"

vars == <<state, outcome, trig, done_callbacks, coro, awaiting, trigger2tasks,
          scheduled_tasks, terminate, current_task, sent, sim_phase, primed,
          cbhdl, sim_cbs, edges, write_calls, wp_fired, wp_pending, wpc,
          ev_fired, ev_pending, ctl, ops,
          op, wout, wlog, wflushed, since, pred, woke, wokeBy, wokeHow>>

\* ---------------------------------------------------------------- helpers
Range(s) == {s[i] : i \in DOMAIN s}

RECURSIVE Without(_, _)
\* the sequence s without its elements that satisfy e.key = k
Without(s, k) ==
  IF s = <<>> THEN <<>>
  ELSE IF Head(s).key = k THEN Without(Tail(s), k)
       ELSE <<Head(s)>> \o Without(Tail(s), k)

RECURSIVE RemoveFirst(_, _)
\* list.remove(x): drop the first occurrence of x
RemoveFirst(s, x) ==
  IF s = <<>> THEN <<>>
  ELSE IF Head(s) = x THEN Tail(s)
       ELSE <<Head(s)>> \o RemoveFirst(Tail(s), x)

Keys(m) == {m[i].key : i \in DOMAIN m}
\* the keys of an ordered map, in order
QueueOrder(q) == [i \in DOMAIN q |-> q[i].key]
HasKey(m, k) == k \in Keys(m)
Get(m, k) == m[CHOOSE i \in DOMAIN m : m[i].key = k].val
\* dict[k] = v: replaces in place, or appends a new key
Put(m, k, v) ==
  IF HasKey(m, k)
  THEN [i \in DOMAIN m |-> IF m[i].key = k THEN [key |-> k, val |-> v] ELSE m[i]]
  ELSE Append(m, [key |-> k, val |-> v])
SetDefault(m, k) == IF HasKey(m, k) THEN m ELSE Append(m, [key |-> k, val |-> <<>>])

Done(S, t) == S.state[t] \in {"FINISHED", "CANCELLED"}

\* ---------------------------------------------------------------- triggers
\* Trigger._cleanup / GPITrigger._cleanup
TriggerCleanup(S, X) ==
  [S EXCEPT !.primed[X] = FALSE,
            !.cbhdl = IF X \in GPITriggers THEN [@ EXCEPT ![X] = FALSE] ELSE @]

TriggerUnprimeKeepsCallback(S, X) ==
  IF X \in GPITriggers
  THEN TriggerCleanup(S, X)
  ELSE IF X[1] = "WEV"
       THEN IF ~S.primed[X] THEN S
            ELSE TriggerCleanup(
                   [S EXCEPT !.wp_pending = RemoveFirst(@, X)], X)
  ELSE IF X[1] = "UEV"
       THEN IF ~S.primed[X] THEN S
            ELSE TriggerCleanup(
                   [S EXCEPT !.ev_pending = RemoveFirst(@, X)], X)
       ELSE TriggerCleanup(S, X)

\* Trigger._unprime / GPITrigger._unprime / _Event._unprime
TriggerUnprime(S, X) ==
  IF X \in GPITriggers
  THEN TriggerCleanup(
         IF S.cbhdl[X] THEN [S EXCEPT !.sim_cbs[X] = @ - 1] ELSE S, X)
  ELSE IF X[1] = "WEV"
       THEN IF ~S.primed[X] THEN S
            ELSE TriggerCleanup(
                   [S EXCEPT !.wp_pending = RemoveFirst(@, X)], X)
  ELSE IF X[1] = "UEV"
       THEN IF ~S.primed[X] THEN S
            ELSE TriggerCleanup(
                   [S EXCEPT !.ev_pending = RemoveFirst(@, X)], X)
       ELSE TriggerCleanup(S, X)

\* _EdgeBase.__init__ reached through RisingEdge(sig), FallingEdge(sig) or
\* Edge(sig): the classes have no metaclass and no __new__, so
\* __singleton_key__ is never called and every construction makes an object
NewEdge(S, cls, sig) ==
  [S EXCEPT !.edges = Append(@, [cls |-> cls, signal |-> sig])]

\* ---------------------------------------------------------------- scheduler
ScheduleTaskDup(S, t, o) ==
  [S EXCEPT !.state[t] = "SCHEDULED",
            !.scheduled_tasks = Append(@, [key |-> t, val |-> o])]

ScheduleTaskFront(S, t, o) ==
  IF HasKey(S.scheduled_tasks, t)
  THEN [S EXCEPT !.raised = "Exception"]
  ELSE [S EXCEPT !.state[t] = "SCHEDULED",
                 !.scheduled_tasks = <<[key |-> t, val |-> o]>> \o @]

\* Scheduler._schedule_task
ScheduleTask(S, t, o) ==
  IF HasKey(S.scheduled_tasks, t)
  THEN [S EXCEPT !.raised = "Exception"]
  ELSE [S EXCEPT !.state[t] = "SCHEDULED",
                 !.scheduled_tasks = Put(@, t, o)]

ReactLoopHeadOnly(S, scheduling, X) ==
  IF scheduling = <<>> \/ S.raised # NoExc THEN S
  ELSE LET t == Head(scheduling)
           S1 == [S EXCEPT !.trig[t] = NoTrig,
                           !.pred[t] = S.since[t] \cap Range(S.fired),
                           !.woke[t] = S.since[t] \cap Range(S.fired),
                           !.wokeBy[t] = X,
                           !.wokeHow[t] = S.cause,
                           !.since[t] = {}]
       IN ScheduleTask(S1, t, "Value")

RECURSIVE ReactLoop(_, _, _)
\* the for loop of Scheduler._react over the popped waiter list
ReactLoop(S, scheduling, X) ==
  IF scheduling = <<>> \/ S.raised # NoExc THEN S
  ELSE LET t == Head(scheduling)
           S1 == [S EXCEPT !.trig[t] = NoTrig,
                           !.pred[t] = S.since[t] \cap Range(S.fired),
                           !.woke[t] = S.since[t] \cap Range(S.fired),
                           !.wokeBy[t] = X,
                           !.wokeHow[t] = S.cause,
                           !.since[t] = {}]
       IN ReactLoop(ScheduleTask(S1, t, "Value"), Tail(scheduling), X)

RECURSIVE ReactLoopOutcome(_, _, _)
ReactLoopOutcome(S, scheduling, X) ==
  IF scheduling = <<>> \/ S.raised # NoExc THEN S
  ELSE LET t == Head(scheduling)
           S1 == [S EXCEPT !.trig[t] = NoTrig,
                           !.pred[t] = S.since[t] \cap Range(S.fired),
                           !.woke[t] = S.since[t] \cap Range(S.fired),
                           !.wokeBy[t] = X,
                           !.wokeHow[t] = S.cause,
                           !.since[t] = {}]
           o == IF X[1] = "TC" /\ S.outcome[X[2]] = "Error" THEN "Error"
                ELSE "Value"
       IN ReactLoopOutcome(ScheduleTask(S1, t, o), Tail(scheduling), X)

ReactWithOutcome(S, X) ==
  IF ~HasKey(S.trigger2tasks, X) THEN S
  ELSE LET scheduling == Get(S.trigger2tasks, X)
           S1 == ReactLoopOutcome([S EXCEPT !.trigger2tasks = Without(@, X),
                                            !.fired = scheduling], scheduling, X)
       IN IF S1.raised # NoExc THEN S1 ELSE TriggerCleanup(S1, X)

ReactReversed(S, X) ==
  IF ~HasKey(S.trigger2tasks, X) THEN S
  ELSE LET scheduling == Get(S.trigger2tasks, X)
           n == Len(scheduling)
           rev == [i \in 1..n |-> scheduling[n + 1 - i]]
           S1 == ReactLoop([S EXCEPT !.trigger2tasks = Without(@, X),
                                     !.fired = scheduling], rev, X)
       IN IF S1.raised # NoExc THEN S1 ELSE TriggerCleanup(S1, X)

\* Scheduler._react
React(S, X) ==
  IF ~HasKey(S.trigger2tasks, X) THEN S
  ELSE LET scheduling == Get(S.trigger2tasks, X)
           S1 == ReactLoop([S EXCEPT !.trigger2tasks = Without(@, X),
                                     !.fired = scheduling], scheduling, X)
       IN IF S1.raised # NoExc THEN S1 ELSE TriggerCleanup(S1, X)

UnscheduleNoWake(S, t) ==
  LET S1 == [S EXCEPT !.scheduled_tasks = Without(@, t),
                      !.since[t] = {},
                      !.woke[t] = {},
                      !.wokeBy[t] = NoTrig,
                      !.wokeHow[t] = "-",
                      !.pred = [u \in Tasks |-> IF u = t THEN {} ELSE @[u] \ {t}]]
      X == S1.trig[t]
  IN IF X = NoTrig THEN S1
     ELSE LET m == SetDefault(S1.trigger2tasks, X)
              l == RemoveFirst(Get(m, X), t)
              a == [S1 EXCEPT !.trig[t] = NoTrig]
          IN IF l = <<>>
             THEN [TriggerUnprime(a, X) EXCEPT !.trigger2tasks = Without(m, X)]
             ELSE [a EXCEPT !.trigger2tasks = Put(m, X, l)]

UnscheduleKeepsPrimed(S, t) ==
  LET S1 == [S EXCEPT !.scheduled_tasks = Without(@, t),
                      !.since[t] = {},
                      !.woke[t] = {},
                      !.wokeBy[t] = NoTrig,
                      !.wokeHow[t] = "-",
                      !.pred = [u \in Tasks |-> IF u = t THEN {} ELSE @[u] \ {t}]]
      X == S1.trig[t]
      S2 == IF X = NoTrig THEN S1
            ELSE LET m == SetDefault(S1.trigger2tasks, X)
                     l == RemoveFirst(Get(m, X), t)
                     a == [S1 EXCEPT !.trig[t] = NoTrig]
                 IN IF l = <<>>
                    THEN [a EXCEPT !.trigger2tasks = Without(m, X)]
                    ELSE [a EXCEPT !.trigger2tasks = Put(m, X, l)]
  IN IF S2.terminate THEN S2
     ELSE IF HasKey(S2.trigger2tasks, TC(t)) THEN React(S2, TC(t))
          ELSE S2

\* Scheduler._unschedule
Unschedule(S, t) ==
  LET S1 == [S EXCEPT !.scheduled_tasks = Without(@, t),
                      !.since[t] = {},
                      !.woke[t] = {},
                      !.wokeBy[t] = NoTrig,
                      !.wokeHow[t] = "-",
                      !.pred = [u \in Tasks |-> IF u = t THEN {} ELSE @[u] \ {t}]]
      X == S1.trig[t]
      S2 == IF X = NoTrig THEN S1
            ELSE LET m == SetDefault(S1.trigger2tasks, X)
                     l == RemoveFirst(Get(m, X), t)
                     a == [S1 EXCEPT !.trig[t] = NoTrig]
                 IN IF l = <<>>
                    THEN [TriggerUnprime(a, X) EXCEPT !.trigger2tasks = Without(m, X)]
                    ELSE [a EXCEPT !.trigger2tasks = Put(m, X, l)]
  IN IF S2.terminate THEN S2
     ELSE IF HasKey(S2.trigger2tasks, TC(t)) THEN React(S2, TC(t))
          ELSE S2


TriggerPrimeNullWaits(S, X, refuse) ==
  IF X \in GPITriggers
  THEN IF X \in {RO, RW} /\ S.sim_phase = "READ_ONLY"
       THEN [S EXCEPT !.raised = "RuntimeError", !.primeRaised = TRUE]
       ELSE IF ~S.cbhdl[X]
            THEN IF refuse
                 THEN [S EXCEPT !.raised = "RuntimeError", !.primeRaised = TRUE]
                 ELSE [S EXCEPT !.cbhdl[X] = TRUE, !.sim_cbs[X] = @ + 1,
                                !.primed[X] = TRUE]
            ELSE [S EXCEPT !.primed[X] = TRUE]
  ELSE IF X[1] = "WEV"
       THEN IF S.primed[X] THEN S
            ELSE [S EXCEPT !.wp_pending = Append(@, X), !.primed[X] = TRUE]
  ELSE IF X[1] = "UEV"
       THEN IF S.primed[X] THEN S
            ELSE [S EXCEPT !.ev_pending = Append(@, X), !.primed[X] = TRUE]
  ELSE IF X[1] = "NULL"
       THEN [S EXCEPT !.primed[X] = TRUE]
  ELSE \* TaskComplete
       IF Done(S, X[2]) THEN React(S, X)
       ELSE [S EXCEPT !.primed[X] = TRUE]

\* Trigger._prime of each variant; refuse: the simulator returns no handle
TriggerPrime(S, X, refuse) ==
  IF X \in GPITriggers
  THEN IF X \in {RO, RW} /\ S.sim_phase = "READ_ONLY"
       THEN [S EXCEPT !.raised = "RuntimeError", !.primeRaised = TRUE]
       ELSE IF ~S.cbhdl[X]
            THEN IF refuse
                 THEN [S EXCEPT !.raised = "RuntimeError", !.primeRaised = TRUE]
                 ELSE [S EXCEPT !.cbhdl[X] = TRUE, !.sim_cbs[X] = @ + 1,
                                !.primed[X] = TRUE]
            ELSE [S EXCEPT !.primed[X] = TRUE]
  ELSE IF X[1] = "WEV"
       THEN IF S.primed[X] THEN S
            ELSE [S EXCEPT !.wp_pending = Append(@, X), !.primed[X] = TRUE]
  ELSE IF X[1] = "UEV"
       THEN IF S.primed[X] THEN S
            ELSE [S EXCEPT !.ev_pending = Append(@, X), !.primed[X] = TRUE]
  ELSE IF X[1] = "NULL"
       THEN React(S, X)
  ELSE \* TaskComplete
       IF Done(S, X[2]) THEN React(S, X)
       ELSE [S EXCEPT !.primed[X] = TRUE]

ScheduleTaskUponDropsError(S, t, X, refuse) ==
  LET old == IF HasKey(S.trigger2tasks, X) THEN Get(S.trigger2tasks, X) ELSE <<>>
      S1 == [S EXCEPT !.trig[t] = X,
                      !.state[t] = "PENDING",
                      !.since[t] = Range(old),
                      !.trigger2tasks = Put(@, X, Append(old, t))]
  IN IF S1.primed[X] THEN S1
     ELSE IF old # <<>> THEN [S1 EXCEPT !.raised = "Exception"]
     ELSE LET S2 == TriggerPrime(S1, X, refuse)
          IN IF S2.raised = NoExc THEN S2
             ELSE ScheduleTask(
                    [S2 EXCEPT !.raised = NoExc,
                               !.trigger2tasks = Without(@, X)],
                    t, "Value")

\* Scheduler._schedule_task_upon
ScheduleTaskUpon(S, t, X, refuse) ==
  LET old == IF HasKey(S.trigger2tasks, X) THEN Get(S.trigger2tasks, X) ELSE <<>>
      S1 == [S EXCEPT !.trig[t] = X,
                      !.state[t] = "PENDING",
                      !.since[t] = Range(old),
                      !.trigger2tasks = Put(@, X, Append(old, t))]
  IN IF S1.primed[X] THEN S1
     ELSE IF old # <<>> THEN [S1 EXCEPT !.raised = "Exception"]
     ELSE LET S2 == TriggerPrime(S1, X, refuse)
          IN IF S2.raised = NoExc THEN S2
             ELSE ScheduleTask(
                    [S2 EXCEPT !.raised = NoExc,
                               !.trigger2tasks = Without(@, X)],
                    t, "PrimeError")

\* ---------------------------------------------------------------- tasks
TaskDoneCallbackIgnoresAwaiters(S, t) ==
  IF S.state[t] = "CANCELLED" THEN S
  ELSE IF S.outcome[t] # "Error" THEN S
  ELSE [S EXCEPT !.exited = TRUE]

\* mycocotb._task_done_callback; sys.exit() becomes S.exited
TaskDoneCallback(S, t) ==
  IF S.state[t] = "CANCELLED" THEN S
  ELSE IF HasKey(S.trigger2tasks, TC(t)) THEN S
  ELSE IF S.outcome[t] # "Error" THEN S
  ELSE [S EXCEPT !.exited = TRUE]

\* Task._do_done_callbacks
DoDoneCallbacks(S, t) ==
  IF S.done_callbacks[t] THEN TaskDoneCallback(S, t) ELSE S

KillUnguarded(S, t) ==
  LET S1 == Unschedule([S EXCEPT !.outcome[t] = "ValueNone", !.cause = "kill"], t)
  IN DoDoneCallbacks(
       [S1 EXCEPT !.coro[t] = "closed", !.awaiting[t] = NoTask,
                  !.state[t] = "FINISHED"], t)

KillCancelled(S, t) ==
  IF Done(S, t) THEN S
  ELSE LET S1 == Unschedule([S EXCEPT !.outcome[t] = "ValueNone", !.cause = "kill"], t)
       IN DoDoneCallbacks(
            [S1 EXCEPT !.coro[t] = "closed", !.awaiting[t] = NoTask,
                       !.state[t] = "CANCELLED"], t)

\* Task.kill
Kill(S, t) ==
  IF Done(S, t) THEN S
  ELSE LET S1 == Unschedule([S EXCEPT !.outcome[t] = "ValueNone", !.cause = "kill"], t)
       IN DoDoneCallbacks(
            [S1 EXCEPT !.coro[t] = "closed", !.awaiting[t] = NoTask,
                       !.state[t] = "FINISHED"], t)

\* Task.cancel
Cancel(S, t) ==
  IF Done(S, t) THEN S
  ELSE LET S1 == Unschedule([S EXCEPT !.cause = "cancel"], t)
       IN DoDoneCallbacks(
            [S1 EXCEPT !.coro[t] = "closed", !.awaiting[t] = NoTask,
                       !.state[t] = "CANCELLED"], t)

\* ---------------------------------------------------------------- writes
RECURSIVE SetLoop(_, _)
\* the for loop of Event.set over the swapped-out pending list
SetLoop(S, pending) ==
  IF pending = <<>> \/ S.raised # NoExc THEN S
  ELSE SetLoop(React(S, Head(pending)), Tail(pending))

\* Event.set of _writes_pending
WritesPendingSet(S) ==
  SetLoop([S EXCEPT !.wp_fired = TRUE, !.wp_pending = <<>>], S.wp_pending)

EventSetLifo(S) ==
  LET n == Len(S.ev_pending)
  IN SetLoop([S EXCEPT !.ev_fired = TRUE, !.ev_pending = <<>>],
             [i \in 1..n |-> S.ev_pending[n + 1 - i]])

\* Event.set of the user's Event
EventSet(S) ==
  SetLoop([S EXCEPT !.ev_fired = TRUE, !.ev_pending = <<>>], S.ev_pending)

\* Event.clear
EventClear(S) == [S EXCEPT !.ev_fired = FALSE]

\* Event.is_set
IsSet(S) == S.ev_fired

EventWaitUnlatched(S, t) == UEv(t)

\* Event.wait called by task t: the trigger it returns
EventWait(S, t) == IF S.ev_fired THEN Null(t) ELSE UEv(t)

ApplyWithoutClear(S) ==
  [S EXCEPT !.wout = @ \o [i \in DOMAIN S.write_calls |->
                              <<S.write_calls[i].key, S.write_calls[i].val>>],
            !.write_calls = <<>>,
            !.wflushed = S.wlog,
            !.wlog = <<>>]

\* _write_scheduler.apply_scheduled_writes
ApplyScheduledWrites(S) ==
  [S EXCEPT !.wout = @ \o [i \in DOMAIN S.write_calls |->
                              <<S.write_calls[i].key, S.write_calls[i].val>>],
            !.write_calls = <<>>,
            !.wp_fired = FALSE,
            !.wflushed = S.wlog,
            !.wlog = <<>>]

ScheduleWriteAlwaysDeferred(S, h, v) ==
  IF S.sim_phase = "READ_ONLY"
  THEN [S EXCEPT !.raised = "RuntimeError"]
  ELSE WritesPendingSet(
         [S EXCEPT !.write_calls = Append(Without(@, h), [key |-> h, val |-> v]),
                   !.wlog = Append(@, <<h, v>>)])

ScheduleWriteSilent(S, h, v) ==
  IF S.sim_phase = "READ_WRITE"
  THEN [S EXCEPT !.wout = Append(@, <<h, v>>)]
  ELSE IF S.sim_phase = "READ_ONLY"
       THEN [S EXCEPT !.raised = "RuntimeError"]
       ELSE [S EXCEPT !.write_calls = Append(Without(@, h), [key |-> h, val |-> v]),
                      !.wlog = Append(@, <<h, v>>)]

ScheduleWriteInPlace(S, h, v) ==
  IF S.sim_phase = "READ_WRITE"
  THEN [S EXCEPT !.wout = Append(@, <<h, v>>)]
  ELSE IF S.sim_phase = "READ_ONLY"
       THEN [S EXCEPT !.raised = "RuntimeError"]
       ELSE WritesPendingSet(
              [S EXCEPT !.write_calls = Put(@, h, v),
                        !.wlog = Append(@, <<h, v>>)])

ScheduleWriteUngated(S, h, v) ==
  IF S.sim_phase = "READ_WRITE"
  THEN [S EXCEPT !.wout = Append(@, <<h, v>>)]
  ELSE WritesPendingSet(
         [S EXCEPT !.write_calls = Append(Without(@, h), [key |-> h, val |-> v]),
                   !.wlog = Append(@, <<h, v>>)])

\* _write_scheduler.schedule_write
ScheduleWrite(S, h, v) ==
  IF S.sim_phase = "READ_WRITE"
  THEN [S EXCEPT !.wout = Append(@, <<h, v>>)]
  ELSE IF S.sim_phase = "READ_ONLY"
       THEN [S EXCEPT !.raised = "RuntimeError"]
       ELSE WritesPendingSet(
              [S EXCEPT !.write_calls = Append(Without(@, h), [key |-> h, val |-> v]),
                        !.wlog = Append(@, <<h, v>>)])

StopWriteSchedulerKeepsFlag(S) ==
  [Kill(S, WriteTask) EXCEPT !.write_calls = <<>>, !.wlog = <<>>]

\* _write_scheduler.stop_write_scheduler (kill of a task that is done, like
\* the skipped kill when _write_task is None, changes nothing)
StopWriteScheduler(S) ==
  [Kill(S, WriteTask) EXCEPT !.write_calls = <<>>,
                             !.wp_fired = FALSE,
                             !.wlog = <<>>]

\* a Python int, or the LogicArray that handle.value makes of a binstr
IntValue(n) == [kind |-> "int", n |-> n, bin |-> <<>>]
LogicArrayValue(bin) == [kind |-> "LogicArray", n |-> 0, bin |-> bin]

MapActionObjFreezeDeposits(cur, obj) ==
  IF obj.cls = "Deposit"
  THEN [value |-> IntValue(obj.value), action |-> "DEPOSIT"]
  ELSE IF obj.cls = "Force"
  THEN [value |-> IntValue(obj.value), action |-> "FORCE"]
  ELSE IF obj.cls = "Freeze"
  THEN [value |-> LogicArrayValue(cur), action |-> "DEPOSIT"]
  ELSE IF obj.cls = "Release"
  THEN [value |-> LogicArrayValue(cur), action |-> "RELEASE"]
  ELSE [value |-> IntValue(obj.value), action |-> "DEPOSIT"]

\* handle._map_action_obj_to_value_action_enum_pair; cur is what
\* get_signal_val_binstr returns when handle.value is read
MapActionObjToValueActionEnumPair(cur, obj) ==
  IF obj.cls = "Deposit"
  THEN [value |-> IntValue(obj.value), action |-> "DEPOSIT"]
  ELSE IF obj.cls = "Force"
  THEN [value |-> IntValue(obj.value), action |-> "FORCE"]
  ELSE IF obj.cls = "Freeze"
  THEN [value |-> LogicArrayValue(cur), action |-> "FORCE"]
  ELSE IF obj.cls = "Release"
  THEN [value |-> LogicArrayValue(cur), action |-> "RELEASE"]
  ELSE [value |-> IntValue(obj.value), action |-> "DEPOSIT"]

\* handle._value_limits(Width, _Limits.VECTOR_NBIT)
ValueLimits == [min |-> -(2 ^ (Width - 1)), max |-> 2 ^ Width - 1]

\* the (write_func, args) that schedule_write stores for a handle
WriteCall(func, action, n, bin) ==
  [func |-> func, action |-> action, n |-> n, bin |-> bin]

\* LogicArrayObject._set_value with schedule_write: an int in range of a
\* handle of at most 32 bits is passed as it is, a LogicArray as its string
SetValue(S, h, value, action) ==
  IF value.kind = "int"
  THEN IF ValueLimits.min <= value.n /\ value.n <= ValueLimits.max
       THEN ScheduleWrite(S, h, WriteCall("set_signal_val_int", action, value.n, <<>>))
       ELSE [S EXCEPT !.raised = "OverflowError"]
  ELSE IF Len(value.bin) # Width
       THEN [S EXCEPT !.raised = "ValueError"]
       ELSE ScheduleWrite(S, h, WriteCall("set_signal_val_binstr", action, 0, value.bin))

IsConst(h) == h = "c"

\* ValueObjectBase.set
Set(S, h, obj, cur) ==
  IF IsConst(h)
  THEN [S EXCEPT !.raised = "TypeError"]
  ELSE LET pair == MapActionObjToValueActionEnumPair(cur, obj)
       IN SetValue(S, h, pair.value, pair.action)


\* ---------------------------------------------------------------- entries
\* mycocotb.start_soon (create_task returns an existing Task unchanged)
StartSoon(S, u) ==
  LET S1 == IF Done(S, u) THEN TaskDoneCallback(S, u) ELSE S
  IN IF S1.exited THEN S1
     ELSE ScheduleTask([S1 EXCEPT !.done_callbacks[u] = TRUE], u, "Value")

SimReactNoFlush(S, X) ==
  LET S0 == [S EXCEPT !.sim_phase = IF X = RW THEN "READ_WRITE"
                                     ELSE IF X = RO THEN "READ_ONLY"
                                     ELSE "NORMAL"]
  IN React(S0, X)

SimReactFlushesOnAny(S, X) ==
  LET S0 == [S EXCEPT !.sim_phase = IF X = RW THEN "READ_WRITE"
                                     ELSE IF X = RO THEN "READ_ONLY"
                                     ELSE "NORMAL"]
  IN React(ApplyScheduledWrites(S0), X)

\* Scheduler._sim_react up to its call of _event_loop
SimReact(S, X) ==
  LET S0 == [S EXCEPT !.sim_phase = IF X = RW THEN "READ_WRITE"
                                     ELSE IF X = RO THEN "READ_ONLY"
                                     ELSE "NORMAL"]
      S1 == IF X = RW THEN ApplyScheduledWrites(S0) ELSE S0
  IN React(S1, X)

ResumeTaskTriggerAlways(S, t, X, refuse) == ScheduleTaskUpon(S, t, X, refuse)

\* Scheduler._resume_task after Task._advance returned a yielded Trigger
ResumeTaskTrigger(S, t, X, refuse) ==
  IF S.terminate THEN S ELSE ScheduleTaskUpon(S, t, X, refuse)

StartCallerFirst(S, t, u) ==
  LET S1 == ResumeTaskTrigger(S, t, Null(t), FALSE)
  IN IF S1.raised # NoExc THEN S1 ELSE StartSoon(S1, u)

\* mycocotb.start awaited by task t: start_soon(u), then the NullTrigger it
\* yields reaches Scheduler._resume_task as the yield of t
Start(S, t, u) ==
  LET S1 == StartSoon(S, u)
  IN IF S1.raised # NoExc \/ S1.exited THEN S1
     ELSE ResumeTaskTrigger(S1, t, Null(t), FALSE)

ResumeTaskTaskNeverStarts(S, t, u) ==
  IF S.terminate THEN S ELSE ScheduleTaskUpon(S, t, TC(u), FALSE)

\* Scheduler._resume_task after Task._advance returned a yielded Task u:
\* _trigger_from_any, _trigger_from_unstarted_task, _trigger_from_started_task
ResumeTaskTask(S, t, u) ==
  IF S.terminate THEN S
  ELSE LET S1 == IF S.state[u] = "UNSTARTED" THEN ScheduleTask(S, u, "Value") ELSE S
       IN IF S1.raised # NoExc THEN S1 ELSE ScheduleTaskUpon(S1, t, TC(u), FALSE)

ResumeTaskBadValue(S, t) ==
  IF S.terminate THEN S ELSE ScheduleTask(S, t, "Value")

\* Scheduler._resume_task after Task._advance returned any other object
ResumeTaskBad(S, t) ==
  IF S.terminate THEN S ELSE ScheduleTask(S, t, "TypeError")

\* Task._advance when the coroutine returns (kind "Value") or raises
\* (kind "Error"), then the rest of Scheduler._resume_task
ResumeTaskFinish(S, t, kind) ==
  LET S1 == DoDoneCallbacks(
              [S EXCEPT !.outcome[t] = kind, !.state[t] = "FINISHED",
                        !.coro[t] = "closed"], t)
  IN IF S1.exited THEN S1 ELSE Unschedule([S1 EXCEPT !.cause = "finish"], t)

RECURSIVE KillAll(_, _)
\* task.kill() for each task of a list, in order
KillAll(S, ts) ==
  IF ts = <<>> THEN S ELSE KillAll(Kill(S, Head(ts)), Tail(ts))

RECURSIVE KillQueue(_)
\* the while loop of Scheduler._cleanup over _scheduled_tasks
KillQueue(S) ==
  IF S.scheduled_tasks = <<>> THEN S
  ELSE KillQueue(Kill([S EXCEPT !.scheduled_tasks = Tail(@)],
                      Head(S.scheduled_tasks).key))

RECURSIVE ReversedWaiters(_)
\* the waiters of items[::-1], flattened
ReversedWaiters(m) ==
  IF m = <<>> THEN <<>> ELSE ReversedWaiters(Tail(m)) \o Head(m).val

SchedulerCleanupWaitersOnly(S) ==
  LET S1 == KillAll(S, ReversedWaiters(S.trigger2tasks))
  IN IF S1.trigger2tasks # <<>> THEN [S1 EXCEPT !.raised = "AssertionError"]
     ELSE S1

\* Scheduler._cleanup
SchedulerCleanup(S) ==
  LET S1 == KillAll(S, ReversedWaiters(S.trigger2tasks))
  IN IF S1.trigger2tasks # <<>> THEN [S1 EXCEPT !.raised = "AssertionError"]
     ELSE KillQueue(S1)

HandleTerminationResetsPhase(S) ==
  LET S1 == SchedulerCleanup(S)
  IN IF S1.raised # NoExc THEN S1
     ELSE [S1 EXCEPT !.terminate = FALSE, !.sim_phase = "NORMAL",
                     !.completed = @ + 1]

\* Scheduler._handle_termination; completed counts the calls of the
\* completion callback _test_complete_cb
HandleTermination(S) ==
  LET S1 == SchedulerCleanup(S)
  IN IF S1.raised # NoExc THEN S1
     ELSE [S1 EXCEPT !.terminate = FALSE, !.completed = @ + 1]

\* ---------------------------------------------------------------- state
Cur ==
  [state |-> state, outcome |-> outcome, trig |-> trig,
   done_callbacks |-> done_callbacks, coro |-> coro, awaiting |-> awaiting,
   trigger2tasks |-> trigger2tasks, scheduled_tasks |-> scheduled_tasks,
   terminate |-> terminate, sim_phase |-> sim_phase, primed |-> primed,
   cbhdl |-> cbhdl, sim_cbs |-> sim_cbs, edges |-> edges,
   write_calls |-> write_calls,
   wp_fired |-> wp_fired, wp_pending |-> wp_pending,
   ev_fired |-> ev_fired, ev_pending |-> ev_pending, wout |-> <<>>,
   wlog |-> wlog, wflushed |-> <<>>, since |-> since, pred |-> pred, woke |-> woke,
   wokeBy |-> wokeBy, wokeHow |-> wokeHow, cause |-> "trigger",
   fired |-> <<>>, raised |-> NoExc, primeRaised |-> FALSE, exited |-> FALSE,
   completed |-> 0]

Commit(S) ==
  /\ state' = S.state
  /\ outcome' = S.outcome
  /\ trig' = S.trig
  /\ done_callbacks' = S.done_callbacks
  /\ coro' = S.coro
  /\ awaiting' = S.awaiting
  /\ trigger2tasks' = S.trigger2tasks
  /\ scheduled_tasks' = S.scheduled_tasks
  /\ terminate' = S.terminate
  /\ sim_phase' = S.sim_phase
  /\ primed' = S.primed
  /\ cbhdl' = S.cbhdl
  /\ sim_cbs' = S.sim_cbs
  /\ edges' = S.edges
  /\ write_calls' = S.write_calls
  /\ wp_fired' = S.wp_fired
  /\ wp_pending' = S.wp_pending
  /\ ev_fired' = S.ev_fired
  /\ ev_pending' = S.ev_pending
  /\ wout' = S.wout
  /\ wlog' = S.wlog
  /\ wflushed' = S.wflushed
  /\ since' = S.since
  /\ pred' = S.pred
  /\ woke' = S.woke
  /\ wokeBy' = S.wokeBy
  /\ wokeHow' = S.wokeHow

Op(name, t, u, X, r) ==
  [name |-> name, task |-> t, tgt |-> u, trigger |-> X, raised |-> r,
   primeRaised |-> FALSE, write |-> <<>>, completed |-> 0, arg |-> <<>>]

\* an exception or SystemExit that leaves the scheduler ends the run
After(S, c) == IF S.exited \/ S.raised # NoExc THEN "exit" ELSE c

Init ==
  /\ state = [t \in Tasks |-> IF t \in {WriteTask, "t1"} THEN "SCHEDULED" ELSE "UNSTARTED"]
  /\ outcome = [t \in Tasks |-> "None"]
  /\ trig = [t \in Tasks |-> NoTrig]
  /\ done_callbacks = [t \in Tasks |-> t \in {WriteTask, "t1"}]
  /\ coro = [t \in Tasks |-> "live"]
  /\ awaiting = [t \in Tasks |-> NoTask]
  /\ trigger2tasks = <<>>
  /\ scheduled_tasks = <<[key |-> WriteTask, val |-> "Value"], [key |-> "t1", val |-> "Value"]>>
  /\ terminate = FALSE
  /\ current_task = NoTask
  /\ sent = "-"
  /\ sim_phase = "NORMAL"
  /\ primed = [X \in Triggers |-> FALSE]
  /\ cbhdl = [X \in GPITriggers |-> FALSE]
  /\ sim_cbs = [X \in GPITriggers |-> 0]
  /\ edges = <<>>
  /\ write_calls = <<>>
  /\ wp_fired = FALSE
  /\ wp_pending = <<>>
  /\ wpc = "wait"
  /\ ev_fired = FALSE
  /\ ev_pending = <<>>
  /\ ctl = "loop"
  /\ ops = 0
  /\ op = Op("init", NoTask, NoTask, NoTrig, FALSE)
  /\ wout = <<>>
  /\ wlog = <<>>
  /\ wflushed = <<>>
  /\ since = [t \in Tasks |-> {}]
  /\ pred = [t \in Tasks |-> {}]
  /\ woke = [t \in Tasks |-> {}]
  /\ wokeBy = [t \in Tasks |-> NoTrig]
  /\ wokeHow = [t \in Tasks |-> "-"]


\* ---------------------------------------------------------------- actions
\* the simulator fires a registered callback: Scheduler._sim_react.
\* The scheduler does not constrain the simulator: any registered callback
\* may be delivered next, whatever other callbacks are registered.
Fire(X) ==
  /\ ctl = "sim"
  /\ sim_cbs[X] > 0
  /\ LET S == SimReact([Cur EXCEPT !.sim_cbs[X] = @ - 1], X)
     IN /\ Commit(S)
        /\ ctl' = After(S, "loop")
        /\ op' = Op("fire", NoTask, NoTask, X, S.raised # NoExc)
  /\ UNCHANGED <<current_task, sent, wpc, ops>>

\* Scheduler._event_loop pops the head of the run queue;
\* Scheduler._resume_task enters Task._advance
Resume ==
  /\ ctl = "loop"
  /\ ~terminate
  /\ scheduled_tasks # <<>>
  /\ LET t == Head(scheduled_tasks).key
     IN /\ current_task' = t
        /\ sent' = Head(scheduled_tasks).val
        /\ state' = [state EXCEPT ![t] = "RUNNING"]
        /\ pred' = [u \in Tasks |-> IF u = t THEN pred[u] ELSE pred[u] \ {t}]
        /\ op' = Op("resume", t, NoTask, NoTrig, FALSE)
  /\ scheduled_tasks' = Tail(scheduled_tasks)
  /\ ctl' = "task"
  /\ ops' = 0
  /\ wout' = <<>>
  /\ wflushed' = <<>>
  /\ UNCHANGED <<outcome, trig, done_callbacks, coro, awaiting, trigger2tasks, terminate,
                 sim_phase, primed, cbhdl, sim_cbs, edges, write_calls, wp_fired,
                 wp_pending, wpc, ev_fired, ev_pending, wlog, since, woke,
                 wokeBy, wokeHow>>

\* Scheduler._event_loop finds the run queue empty: back to the simulator
ReturnToSim ==
  /\ ctl = "loop"
  /\ ~terminate
  /\ scheduled_tasks = <<>>
  /\ ctl' = "sim"
  /\ op' = Op("return", NoTask, NoTask, NoTrig, FALSE)
  /\ wout' = <<>>
  /\ wflushed' = <<>>
  /\ UNCHANGED <<state, outcome, trig, done_callbacks, coro, awaiting, trigger2tasks,
                 scheduled_tasks, terminate, current_task, sent, sim_phase,
                 primed, cbhdl, sim_cbs, edges, write_calls, wp_fired, wp_pending,
                 wpc, ev_fired, ev_pending, ops, wlog, since, pred, woke,
                 wokeBy, wokeHow>>

\* Scheduler._event_loop finds _terminate set: _handle_termination
Terminate ==
  /\ ctl = "loop"
  /\ terminate
  /\ LET S == HandleTermination(Cur)
     IN /\ Commit(S)
        /\ ctl' = After(S, "sim")
        /\ op' = [Op("terminate", NoTask, NoTask, NoTrig, S.raised # NoExc)
                    EXCEPT !.completed = S.completed]
  /\ UNCHANGED <<current_task, sent, wpc, ops>>

\* the state a running coroutine acts on: its wake record is consumed
Run(t) ==
  [Cur EXCEPT !.woke[t] = {}, !.wokeBy[t] = NoTrig, !.wokeHow[t] = "-",
              !.awaiting[t] = NoTask]

\* the coroutine of a user task is executing and may call the public API
UserRuns(t) ==
  /\ ctl = "task"
  /\ current_task = t
  /\ t \in UserTasks
  /\ coro[t] = "live"

UserOp(t, S, name, u, X) ==
  /\ Commit([S EXCEPT !.raised = NoExc])
  /\ ctl' = IF S.exited THEN "exit" ELSE "task"
  /\ ops' = ops + 1
  /\ op' = Op(name, t, u, X, S.raised # NoExc)
  /\ UNCHANGED <<current_task, sent, wpc>>

\* user code calls handle.set(): _write_scheduler.schedule_write
OpScheduleWrite(t, h, v) ==
  /\ UserRuns(t)
  /\ ops < MaxOps
  /\ sim_phase = "NORMAL" => Len(wlog) < MaxLog
  /\ LET S == ScheduleWrite(Run(t), h, v)
     IN /\ Commit([S EXCEPT !.raised = NoExc])
        /\ ctl' = "task"
        /\ op' = [Op("schedule_write", t, NoTask, NoTrig, S.raised # NoExc)
                    EXCEPT !.write = <<h, v>>]
  /\ ops' = ops + 1
  /\ UNCHANGED <<current_task, sent, wpc>>

\* user code calls h.set(obj) while the simulator holds cur in the signal
OpSet(t, h, obj, cur) ==
  /\ UserRuns(t)
  /\ ops < MaxOps
  /\ sim_phase = "NORMAL" => Len(wlog) < MaxSets
  /\ LET S == Set(Run(t), h, obj, cur)
     IN /\ Commit([S EXCEPT !.raised = NoExc])
        /\ ctl' = "task"
        /\ op' = [Op("set", t, NoTask, NoTrig, S.raised # NoExc)
                    EXCEPT !.write = <<h>>, !.arg = <<obj, cur>>]
  /\ ops' = ops + 1
  /\ UNCHANGED <<current_task, sent, wpc>>

\* user code calls _write_scheduler.stop_write_scheduler(); op records the
\* handles whose writes were pending
OpStopWriteScheduler(t) ==
  /\ UserRuns(t)
  /\ ops < MaxOps
  /\ LET S == StopWriteScheduler(Run(t))
     IN /\ Commit([S EXCEPT !.raised = NoExc])
        /\ ctl' = IF S.exited THEN "exit" ELSE "task"
        /\ op' = [Op("stop_write_scheduler", t, WriteTask, NoTrig, S.raised # NoExc)
                    EXCEPT !.write = QueueOrder(write_calls)]
  /\ ops' = ops + 1
  /\ UNCHANGED <<current_task, sent, wpc>>

\* user code calls mycocotb.start_soon(u) on a task that is not waiting
OpStartSoon(t, u) ==
  /\ UserRuns(t)
  /\ ops < MaxOps
  /\ state[u] \notin {"PENDING", "RUNNING"}
  /\ UserOp(t, StartSoon(Run(t), u), "start_soon", u, NoTrig)

\* user code calls u.kill(); op records the trigger u was waiting on
OpKill(t, u) ==
  /\ UserRuns(t)
  /\ ops < MaxOps
  /\ u # t
  /\ UserOp(t, Kill(Run(t), u), "kill", u, trig[u])

\* user code calls u.cancel()
OpCancel(t, u) ==
  /\ UserRuns(t)
  /\ ops < MaxOps
  /\ u # t
  /\ UserOp(t, Cancel(Run(t), u), "cancel", u, trig[u])

\* user code calls Scheduler.shutdown_soon()
OpShutdownSoon(t) ==
  /\ UserRuns(t)
  /\ ops < MaxOps
  /\ UserOp(t, [Run(t) EXCEPT !.terminate = TRUE], "shutdown_soon", NoTask, NoTrig)

\* the end of a resumption: _resume_task returns to _event_loop
EndStep(S0, name, t, u, X) ==
  /\ Commit(S0)
  /\ ctl' = After(S0, "loop")
  /\ current_task' = NoTask
  /\ op' = [Op(name, t, u, X, S0.raised # NoExc)
               EXCEPT !.primeRaised = S0.primeRaised]
  /\ sent' = "-"
  /\ ops' = 0

\* the coroutine awaits a trigger
YieldTrigger(t, X, refuse) ==
  /\ UserRuns(t)
  /\ refuse => (X \in GPITriggers /\ ~cbhdl[X])
  /\ EndStep(ResumeTaskTrigger(Run(t), t, X, refuse), "yield", t, NoTask, X)
  /\ UNCHANGED wpc

\* the coroutine constructs an edge trigger on a signal and awaits it
YieldEdge(t, cls, sig) ==
  /\ UserRuns(t)
  /\ Len(edges) < MaxEdges
  /\ LET X == Ed(Len(edges) + 1)
     IN EndStep(ResumeTaskTrigger(NewEdge(Run(t), cls, sig), t, X, FALSE),
                "yield", t, NoTask, X)
  /\ UNCHANGED wpc

\* the coroutine awaits an edge trigger object constructed earlier
YieldSameEdge(t, i) ==
  /\ i \in DOMAIN edges
  /\ YieldTrigger(t, Ed(i), FALSE)

\* user code calls set() on the Event
OpEventSet(t) ==
  /\ UserRuns(t)
  /\ ops < MaxOps
  /\ UserOp(t, EventSet(Run(t)), "event_set", NoTask, NoTrig)

\* user code calls clear() on the Event
OpEventClear(t) ==
  /\ UserRuns(t)
  /\ ops < MaxOps
  /\ UserOp(t, EventClear(Run(t)), "event_clear", NoTask, NoTrig)

\* the coroutine executes `await event.wait()`
YieldEventWait(t) ==
  /\ UserRuns(t)
  /\ LET X == EventWait(Run(t), t)
     IN EndStep(ResumeTaskTrigger(Run(t), t, X, FALSE), "event_wait", t, NoTask, X)
  /\ UNCHANGED wpc

\* the coroutine executes `await mycocotb.start(u)` on a task that is not
\* waiting (when its start_soon raises, the step is that of OpStartSoon)
YieldStart(t, u) ==
  /\ UserRuns(t)
  /\ state[u] = "UNSTARTED"
  /\ EndStep(Start(Run(t), t, u), "start", t, u, Null(t))
  /\ UNCHANGED wpc

\* the coroutine awaits a task
YieldTask(t, u) ==
  /\ UserRuns(t)
  /\ u # t
  /\ EndStep(ResumeTaskTask([Run(t) EXCEPT !.awaiting[t] = u], t, u),
             "yield_task", t, u, NoTrig)
  /\ UNCHANGED wpc

\* the coroutine yields an object that is neither a Trigger nor a Task
YieldBad(t) ==
  /\ UserRuns(t)
  /\ EndStep(ResumeTaskBad(Run(t), t), "yield_bad", t, NoTask, NoTrig)
  /\ UNCHANGED wpc

\* the coroutine returns or raises
Finish(t, kind) ==
  /\ UserRuns(t)
  /\ EndStep(ResumeTaskFinish(Run(t), t, kind), "finish", t, NoTask, NoTrig)
  /\ UNCHANGED wpc

\* send() on a coroutine that is exhausted or closed raises RuntimeError
ResumeClosed(t) ==
  /\ ctl = "task"
  /\ current_task = t
  /\ coro[t] = "closed"
  /\ EndStep(ResumeTaskFinish(Run(t), t, "Error"), "finish", t, NoTask, NoTrig)
  /\ UNCHANGED wpc

\* _write_scheduler._do_writes: one step of its loop
DoWrites ==
  /\ ctl = "task"
  /\ current_task = WriteTask
  /\ coro[WriteTask] = "live"
  /\ IF sent # "Value"
     THEN /\ EndStep(ResumeTaskFinish(Run(WriteTask), WriteTask, "Error"), "finish",
                     WriteTask, NoTask, NoTrig)
          /\ UNCHANGED wpc
     ELSE LET X == IF wpc = "rw" THEN RW
                   ELSE IF wp_fired THEN Null(WriteTask) ELSE WEv(WriteTask)
          IN /\ EndStep(ResumeTaskTrigger(Run(WriteTask), WriteTask, X, FALSE), "yield",
                        WriteTask, NoTask, X)
             /\ wpc' = IF wpc = "rw" THEN "wait" ELSE "rw"

\* _write_scheduler._do_writes awaits ReadWrite and the simulator returns no
\* handle for the callback: ReadWrite._prime raises RuntimeError
DoWritesRefused ==
  /\ ctl = "task"
  /\ current_task = WriteTask
  /\ coro[WriteTask] = "live"
  /\ sent = "Value"
  /\ wpc = "rw"
  /\ ~cbhdl[RW]
  /\ EndStep(ResumeTaskTrigger(Run(WriteTask), WriteTask, RW, TRUE), "yield",
             WriteTask, NoTask, RW)
  /\ wpc' = "wait"

\* Task.result: what it returns ("Value", "ValueNone") or raises
Result(u) ==
  IF state[u] = "CANCELLED" THEN "CancelledError"
  ELSE IF state[u] = "FINISHED" THEN outcome[u]
  ELSE "InvalidStateError"

\* Task.exception: "None" or the stored error, or what it raises
Exception(u) ==
  IF state[u] = "CANCELLED" THEN "CancelledError"
  ELSE IF state[u] = "FINISHED"
       THEN (IF outcome[u] = "Error" THEN "Error" ELSE "None")
  ELSE "InvalidStateError"

\* what the coroutine of the task being resumed observes at its await:
\* the injected outcome, or after `yield self` in Task.__await__ the
\* result() of the awaited task
Seen(t) ==
  IF sent = "Value" /\ awaiting[t] # NoTask THEN Result(awaiting[t]) ELSE sent

\* ---------------------------------------------------------------- specifications
\* Spec: two user tasks that use the whole API, writes to one handle
Users == {"t1", "t2"}
\* SpecWrites: one user task that writes to every handle
Writers == {"t1"}
\* SpecJoin: three user tasks, t1 starts, kills and cancels the others
Leaders == {"t1"}

PhaseTriggers(t) == {RW, RO, NTS, Null(t)}
TaskTriggers(t, U) == {TC(u) : u \in U \ {t}}

Next ==
  \/ \E X \in GPITriggers : Fire(X)
  \/ Resume
  \/ ReturnToSim
  \/ Terminate
  \/ \E t \in Users : OpScheduleWrite(t, "a", 1)
  \/ \E t \in Users, u \in Users : OpStartSoon(t, u)
  \/ \E t \in Users, u \in Users : OpKill(t, u)
  \/ \E t \in Users, u \in Users : OpCancel(t, u)
  \/ \E t \in Users : OpShutdownSoon(t)
  \/ \E t \in Users : \E X \in PhaseTriggers(t) \cup TaskTriggers(t, Users), refuse \in BOOLEAN :
       YieldTrigger(t, X, refuse)
  \/ \E t \in Users, u \in Users : YieldTask(t, u)
  \/ \E t \in Users : YieldBad(t)
  \/ \E t \in Users, kind \in {"Value", "Error"} : Finish(t, kind)
  \/ \E t \in Tasks : ResumeClosed(t)
  \/ DoWrites

Spec == Init /\ [][Next]_vars

NextWrites ==
  \/ \E X \in GPITriggers : Fire(X)
  \/ Resume
  \/ ReturnToSim
  \/ \E t \in Writers, h \in Handles, v \in Vals : OpScheduleWrite(t, h, v)
  \/ \E t \in Writers : \E X \in PhaseTriggers(t) : YieldTrigger(t, X, FALSE)
  \/ \E t \in Writers, kind \in {"Value", "Error"} : Finish(t, kind)
  \/ DoWrites

SpecWrites == Init /\ [][NextWrites]_vars

\* a coroutine that is running reaches its next await or its end
CoroutinesYield == []<>(ctl # "task")

\* the simulator eventually fires the callback registered for X (firing
\* consumes the registration; in SpecWrites nothing else removes it)
Delivers(X) == (sim_cbs[X] > 0) ~> (sim_cbs[X] = 0)

\* SpecWritesLive: SpecWrites where the event loop and the coroutines make
\* progress and the simulator eventually fires every registered callback
SpecWritesLive ==
  /\ SpecWrites
  /\ WF_vars(Resume)
  /\ WF_vars(ReturnToSim)
  /\ CoroutinesYield
  /\ \A X \in {RW, RO, NTS} : Delivers(X)

\* SpecSet: one user task drives two signals and a constant with set()
NextSet ==
  \/ \E X \in GPITriggers : Fire(X)
  \/ Resume
  \/ ReturnToSim
  \/ \E t \in Writers, obj \in SetObjs, cur \in BinStrs : OpSet(t, "a", obj, cur)
  \/ \E t \in Writers, h \in {"b", "c"} : OpSet(t, h, Plain(1), <<"0", "1">>)
  \/ \E t \in Writers : \E X \in PhaseTriggers(t) : YieldTrigger(t, X, FALSE)
  \/ \E t \in Writers, kind \in {"Value", "Error"} : Finish(t, kind)
  \/ DoWrites

SpecSet == Init /\ [][NextSet]_vars

\* SpecStop: SpecWrites where the writer may stop the write scheduler
NextStop ==
  \/ \E X \in GPITriggers : Fire(X)
  \/ Resume
  \/ ReturnToSim
  \/ \E t \in Writers, h \in Handles, v \in Vals : OpScheduleWrite(t, h, v)
  \/ \E t \in Writers : OpStopWriteScheduler(t)
  \/ \E t \in Writers : \E X \in PhaseTriggers(t) : YieldTrigger(t, X, FALSE)
  \/ \E t \in Writers, kind \in {"Value", "Error"} : Finish(t, kind)
  \/ DoWrites

SpecStop == Init /\ [][NextStop]_vars

\* SpecRefuse: one writer that may shut the scheduler down, and a simulator
\* that may refuse the ReadWrite callback of the write task
NextRefuse ==
  \/ \E X \in GPITriggers : Fire(X)
  \/ Resume
  \/ ReturnToSim
  \/ Terminate
  \/ \E t \in Writers, h \in Handles : OpScheduleWrite(t, h, 1)
  \/ \E t \in Writers : OpShutdownSoon(t)
  \/ \E t \in Writers : \E X \in PhaseTriggers(t) : YieldTrigger(t, X, FALSE)
  \/ \E t \in Writers, kind \in {"Value", "Error"} : Finish(t, kind)
  \/ DoWrites
  \/ DoWritesRefused

SpecRefuse == Init /\ [][NextRefuse]_vars

NextJoin ==
  \/ \E X \in GPITriggers : Fire(X)
  \/ Resume
  \/ ReturnToSim
  \/ \E t \in Leaders, u \in UserTasks : OpStartSoon(t, u)
  \/ \E t \in Leaders, u \in UserTasks : OpKill(t, u)
  \/ \E t \in Leaders, u \in UserTasks : OpCancel(t, u)
  \/ \E t \in Leaders : OpShutdownSoon(t)
  \/ \E t \in Leaders, u \in UserTasks : YieldStart(t, u)
  \/ Terminate
  \/ \E t \in UserTasks : \E X \in {NTS, Null(t)} \cup TaskTriggers(t, UserTasks) :
       YieldTrigger(t, X, FALSE)
  \/ \E t \in UserTasks, u \in UserTasks : YieldTask(t, u)
  \/ \E t \in UserTasks, kind \in {"Value", "Error"} : Finish(t, kind)
  \/ \E t \in Tasks : ResumeClosed(t)
  \/ DoWrites

SpecJoin == Init /\ [][NextJoin]_vars

\* SpecEdge: two user tasks that await edges of the signals
NextEdge ==
  \/ \E X \in GPITriggers : Fire(X)
  \/ Resume
  \/ ReturnToSim
  \/ \E t \in Users, u \in Users : OpStartSoon(t, u)
  \/ \E t \in Users, cls \in EdgeClasses, sig \in Signals : YieldEdge(t, cls, sig)
  \/ \E t \in Users, i \in 1..MaxEdges : YieldSameEdge(t, i)
  \/ \E t \in Users : YieldTrigger(t, NTS, FALSE)
  \/ \E t \in Users, kind \in {"Value", "Error"} : Finish(t, kind)
  \/ \E t \in Tasks : ResumeClosed(t)
  \/ DoWrites

SpecEdge == Init /\ [][NextEdge]_vars

\* SpecEvent: three user tasks that share one Event
NextEvent ==
  \/ \E X \in GPITriggers : Fire(X)
  \/ Resume
  \/ ReturnToSim
  \/ \E t \in Leaders, u \in UserTasks : OpStartSoon(t, u)
  \/ \E t \in Leaders, u \in UserTasks : OpKill(t, u)
  \/ \E t \in UserTasks : OpEventSet(t)
  \/ \E t \in UserTasks : OpEventClear(t)
  \/ \E t \in UserTasks : YieldEventWait(t)
  \/ \E t \in UserTasks : YieldTrigger(t, NTS, FALSE)
  \/ \E t \in UserTasks : Finish(t, "Value")
  \/ \E t \in Tasks : ResumeClosed(t)
  \/ DoWrites

SpecEvent == Init /\ [][NextEvent]_vars


\* ---------------------------------------------------------------- claims
\* C1: FIFO wake. When a task B is resumed, every task that awaited the same
\* trigger before B and was woken by the same firing has already been
\* resumed (or was cancelled in between).
C1_FifoWake ==
  \A b \in Tasks : (ctl = "task" /\ current_task = b) => pred[b] = {}

\* C1 witness: B is resumed after an in-process trigger (a task's complete
\* trigger) woke it together with an earlier waiter that was not cancelled.
C1_Witness ==
  \E b \in Tasks :
    /\ ctl = "task" /\ current_task = b /\ op.name = "resume"
    /\ wokeBy[b][1] = "TC"
    /\ \E a \in woke[b] : state[a] \notin {"FINISHED", "CANCELLED"}


FiredRW(o) == o.name = "fire" /\ o.trigger = RW

RECURSIVE LastWrites(_, _)
\* the writes of log from index i on that no later write to the same handle
\* follows, in the order of the log
LastWrites(log, i) ==
  IF i > Len(log) THEN <<>>
  ELSE (IF \E j \in DOMAIN log : j > i /\ log[j][1] = log[i][1]
        THEN <<>> ELSE <<log[i]>>) \o LastWrites(log, i + 1)

\* C2: Write coalescing. The flush at a firing of ReadWrite invokes, of the
\* schedule_write calls made in the Normal phase since the previous flush,
\* exactly the last one per handle, in the order of their last scheduling.
C2_WriteCoalescing ==
  FiredRW(op) => wout = LastWrites(wflushed, 1)

\* C2 witness: a:=1, b:=2, a:=2 were scheduled and the flush applied
\* b:=2 then a:=2.
C2_Witness ==
  /\ FiredRW(op)
  /\ wflushed = << <<"a", 1>>, <<"b", 2>>, <<"a", 2>> >>
  /\ wout = << <<"b", 2>>, <<"a", 2>> >>

PendingWrites(m) == [i \in DOMAIN m |-> <<m[i].key, m[i].val>>]

\* C3: Deferred writes are applied exactly once at the ReadWrite boundary.
\* No step other than a firing of ReadWrite invokes a write while writes are
\* pending; a firing of ReadWrite invokes every pending write once, in
\* order, and leaves the pending map empty and the writes-pending event
\* cleared.
C3_AppliedOnceAtReadWrite ==
  [][ /\ FiredRW(op') =>
           /\ wout' = PendingWrites(write_calls)
           /\ write_calls' = <<>>
           /\ ~wp_fired'
      /\ (~FiredRW(op') /\ (write_calls # <<>> \/ write_calls' # <<>>)) =>
           wout' = <<>> ]_vars

\* C3 witness: a firing of ReadWrite applied two pending writes.
C3_Witness ==
  /\ FiredRW(op)
  /\ Len(wout) = 2
  /\ write_calls = <<>>
  /\ ~wp_fired

\* C4: Write phase gate. schedule_write in the ReadOnly phase raises to the
\* caller, invokes no write function, adds no pending entry and does not set
\* the writes-pending event.
C4_WritePhaseGate ==
  [][ (op'.name = "schedule_write" /\ sim_phase = "READ_ONLY") =>
        /\ op'.raised
        /\ wout' = <<>>
        /\ write_calls' = write_calls
        /\ wp_fired' = wp_fired
        /\ wp_pending' = wp_pending
        /\ scheduled_tasks' = scheduled_tasks ]_vars

\* C4 witness: schedule_write raised in the ReadOnly phase.
C4_Witness ==
  /\ op.name = "schedule_write"
  /\ op.raised
  /\ sim_phase = "READ_ONLY"
  /\ write_calls = <<>>
  /\ ~wp_fired


Waiters(m) == UNION {Range(m[i].val) : i \in DOMAIN m}

\* C5: Await phase gate. After a task awaited ReadWrite or ReadOnly while
\* the phase is ReadOnly, the task is in no waiter list and is queued to be
\* resumed with the priming error, also when another task already waits on
\* the same trigger.
C5_AwaitPhaseGate ==
  (op.name = "yield" /\ op.trigger \in {RW, RO} /\ sim_phase = "READ_ONLY"
     /\ ~terminate) =>
    /\ op.task \notin Waiters(trigger2tasks)
    /\ HasKey(scheduled_tasks, op.task)
    /\ Get(scheduled_tasks, op.task) = "PrimeError"

\* C5 witness: a task awaited ReadOnly in the ReadOnly phase and was queued
\* with the priming error.
C5_Witness ==
  /\ op.name = "yield" /\ op.trigger = RO /\ sim_phase = "READ_ONLY"
  /\ HasKey(scheduled_tasks, op.task)
  /\ Get(scheduled_tasks, op.task) = "PrimeError"

NoDup(m) == \A i, j \in DOMAIN m : m[i].key = m[j].key => i = j

\* C6: Run-queue uniqueness. A task appears at most once in the run queue,
\* and start_soon on a task that is already queued raises and leaves the run
\* queue unchanged.
C6_RunQueueUnique ==
  /\ NoDup(scheduled_tasks)
  /\ [][ /\ NoDup(scheduled_tasks')
         /\ (op'.name = "start_soon" /\ HasKey(scheduled_tasks, op'.tgt)) =>
              /\ op'.raised
              /\ scheduled_tasks' = scheduled_tasks ]_vars

\* C6 witness: start_soon on a queued task raised and the task is still
\* queued behind another queued task.
C6_Witness ==
  /\ op.name = "start_soon" /\ op.raised
  /\ HasKey(scheduled_tasks, op.tgt)
  /\ Len(scheduled_tasks) >= 2

PrimedIffWaited ==
  /\ \A i \in DOMAIN trigger2tasks :
       /\ trigger2tasks[i].val # <<>>
       /\ primed[trigger2tasks[i].key]
  /\ \A X \in Triggers : primed[X] => HasKey(trigger2tasks, X)

IsDone(s) == s \in {"FINISHED", "CANCELLED"}

C10_TerminalAbsorbing ==
  [][ \A t \in Tasks : IsDone(state[t]) =>
        /\ state'[t] = state[t]
        /\ outcome'[t] = outcome[t]
        /\ ~HasKey(scheduled_tasks', t) ]_vars


\* the tasks waiting on the complete trigger of task b
AwaitersOf(m, b) == IF HasKey(m, TC(b)) THEN Range(Get(m, TC(b))) ELSE {}

\* a task that a cancel or kill of another task put in the run queue and
\* that has not run since
WokenByEnd(a) == wokeHow[a] \in {"kill", "cancel"}

ResumedAfterFinish(t, u) ==
  /\ ctl = "task" /\ current_task = t /\ op.name = "resume"
  /\ wokeBy[t] = TC(u) /\ wokeHow[t] = "finish"

\* C12: Completion versus result. A task waiting on T.complete is resumed
\* with a normal outcome when T finishes, also when T finished with an
\* error; a task suspended in `await T` is resumed normally too and then
\* observes T.result(): T's error is raised in the awaiter. T.exception()
\* returns the stored error.
C12_CompletionVersusResult ==
  \A t, u \in Tasks :
    ResumedAfterFinish(t, u) =>
      /\ sent = "Value"
      /\ awaiting[t] = NoTask => Seen(t) = "Value"
      /\ awaiting[t] # NoTask =>
           /\ awaiting[t] = u
           /\ Seen(t) = Result(u)
      /\ (state[u] = "FINISHED" /\ outcome[u] = "Error") =>
           /\ Exception(u) = "Error"
           /\ awaiting[t] = u => Seen(t) = "Error"

\* C12 witness: a task that awaited T itself is resumed after T finished
\* with an error and observes the error.
C12_Witness ==
  \E t, u \in Tasks :
    /\ ResumedAfterFinish(t, u)
    /\ awaiting[t] = u
    /\ outcome[u] = "Error"
    /\ Seen(t) = "Error"


\* SystemExit left the scheduler
ExitRequested == ctl = "exit" /\ ~op.raised

\* C13: Unawaited failure is fatal. A task with the start_soon completion
\* callback that finishes with an error while no task waits on its complete
\* trigger makes the scheduler exit (sys.exit), and no task is resumed after
\* that; a task that finishes while some task waits on its complete trigger,
\* or finishes normally, or is cancelled or killed, requests no exit.
C13_UnawaitedFailureFatal ==
  [][ /\ ctl # "exit"
      /\ op'.name = "finish" =>
           (ExitRequested' <=>
              /\ done_callbacks[op'.task]
              /\ outcome'[op'.task] = "Error"
              /\ ~HasKey(trigger2tasks, TC(op'.task)))
      /\ op'.name \in {"kill", "cancel", "terminate"} => ctl' # "exit" ]_vars

\* C13 witness: a task finished with an error that nobody awaited; the
\* scheduler exited with another task still in the run queue.
C13_Witness ==
  /\ op.name = "finish"
  /\ ExitRequested
  /\ state[op.task] = "FINISHED" /\ outcome[op.task] = "Error"
  /\ \E u \in UserTasks : HasKey(scheduled_tasks, u)


\* the step resumes a task that was queued with outcome o
Resumes(o) ==
  /\ op'.name = "resume"
  /\ scheduled_tasks # <<>>
  /\ Head(scheduled_tasks).val = o

QueuedWithPrimeError(q, t) == HasKey(q, t) /\ Get(q, t) = "PrimeError"

\* when priming raised, the task is queued with the exception and the
\* trigger is not a key of the map; a task resumed from that queue entry
\* is sent the exception
PrimeErrorDelivered ==
  /\ (op'.name = "yield" /\ op'.primeRaised) =>
       /\ QueuedWithPrimeError(scheduled_tasks', op'.task)
       /\ state'[op'.task] = "SCHEDULED"
       /\ ~HasKey(trigger2tasks', op'.trigger)
       /\ ~primed'[op'.trigger]
       /\ UNCHANGED sim_cbs
  /\ Resumes("PrimeError") =>
       /\ sent' = "PrimeError"
       /\ Seen(Head(scheduled_tasks).key)' = "PrimeError"

Woken(a) == wokeHow[a] # "-"

\* a task that waits on a trigger leaves the trigger's waiter list only by
\* being put in the run queue by a firing of the trigger, or by being
\* cancelled or killed
WaitersAreWoken ==
  \A i \in DOMAIN trigger2tasks :
    \A t \in Range(trigger2tasks[i].val) :
      (~HasKey(trigger2tasks', trigger2tasks[i].key)
         \/ t \notin Range(Get(trigger2tasks', trigger2tasks[i].key))) =>
        \/ /\ HasKey(scheduled_tasks', t)
           /\ wokeBy'[t] = trigger2tasks[i].key
        \/ IsDone(state'[t])

PhaseOf(X) ==
  IF X = RW THEN "READ_WRITE" ELSE IF X = RO THEN "READ_ONLY" ELSE "NORMAL"

\* C17: Phase coherence. Only the entry of _sim_react (a simulator callback,
\* taken while the simulator has control and no task is current) changes the
\* phase, to the phase of the trigger that fired; no step taken while a task
\* is current or between two resumptions of a drain changes it.
C17_PhaseCoherence ==
  [][ /\ op'.name = "fire" =>
           /\ ctl = "sim" /\ current_task = NoTask
           /\ sim_phase' = PhaseOf(op'.trigger)
      /\ op'.name # "fire" => sim_phase' = sim_phase
      /\ ctl \in {"loop", "task"} => sim_phase' = sim_phase ]_vars

\* C17 witness: in the drain that follows a firing of ReadOnly, the second
\* task that the firing woke is resumed in the ReadOnly phase.
C17_Witness ==
  /\ op.name = "resume"
  /\ sim_phase = "READ_ONLY"
  /\ wokeBy[current_task] = RO
  /\ woke[current_task] # {}


\* a task calls schedule_write while the phase is ReadWrite
WritesInWindow == op'.name = "schedule_write" /\ sim_phase = "READ_WRITE"

C19_WindowWritesCached ==
  [][ WritesInWindow =>
        /\ wout' = <<>>
        /\ HasKey(write_calls', op'.write[1])
        /\ Get(write_calls', op'.write[1]) = op'.write[2] ]_vars

\* C19 witness: a write made in the ReadWrite phase was invoked during the
\* call and nothing is held for the following firing of ReadWrite.
C19_Witness ==
  /\ op.name = "schedule_write"
  /\ sim_phase = "READ_WRITE"
  /\ wout = << <<"a", 1>> >>
  /\ write_calls = <<>>
  /\ wlog = <<>>
  /\ ~wp_fired


C21_KeyedSingletonEdges ==
  \A i, j \in DOMAIN edges :
    (edges[i].cls = edges[j].cls /\ edges[i].signal = edges[j].signal) => i = j

\* C21 witness: two tasks each awaited a separately constructed
\* RisingEdge(clk); there are two trigger objects, two waiter lists and two
\* simulator callbacks.
C21_Witness ==
  /\ edges = << [cls |-> "RisingEdge", signal |-> "clk"],
                [cls |-> "RisingEdge", signal |-> "clk"] >>
  /\ HasKey(trigger2tasks, Ed(1)) /\ HasKey(trigger2tasks, Ed(2))
  /\ Get(trigger2tasks, Ed(1)) # Get(trigger2tasks, Ed(2))
  /\ sim_cbs[Ed(1)] = 1 /\ sim_cbs[Ed(2)] = 1

\* C22: Edge type check. RisingEdge(sig) and FallingEdge(sig) with a handle
\* that is not a 1-bit logic handle fail at construction: no such trigger
\* object exists, none is awaited and none is primed.
C22_EdgeTypeCheck ==
  \A i \in DOMAIN edges :
    edges[i].cls \in {"RisingEdge", "FallingEdge"} =>
      edges[i].signal \in LogicObjects

\* C22 witness: a RisingEdge on the 4-bit handle was constructed and awaited;
\* it is primed, has a waiter and a simulator callback.
C22_Witness ==
  \E i \in DOMAIN edges :
    /\ edges[i] = [cls |-> "RisingEdge", signal |-> "bus"]
    /\ primed[Ed(i)]
    /\ sim_cbs[Ed(i)] = 1
    /\ HasKey(trigger2tasks, Ed(i))
    /\ op.name = "yield" /\ op.trigger = Ed(i) /\ ~op.raised


RECURSIVE EventWaiters(_)
\* the tasks suspended in `await event.wait()`, in the order in which they
\* started waiting (the order of their keys in the trigger -> waiters map)
EventWaiters(m) ==
  IF m = <<>> THEN <<>>
  ELSE (IF Head(m).key[1] = "UEV" THEN Head(m).val ELSE <<>>)
         \o EventWaiters(Tail(m))

WaitsForSet(t) == state[t] = "PENDING" /\ trig[t] = UEv(t)

Pos(q, t) == CHOOSE i \in DOMAIN q : q[i].key = t

\* the run queue is first in, first out: a task that stays in the queue
\* stays ahead of every task that was behind it and of every task that
\* enters, and only the head of the queue is resumed
QueueIsFifo ==
  /\ \A a, b \in Tasks :
       (/\ a # b
        /\ HasKey(scheduled_tasks, a) /\ HasKey(scheduled_tasks', a)
        /\ HasKey(scheduled_tasks', b)
        /\ HasKey(scheduled_tasks, b) =>
             Pos(scheduled_tasks, a) < Pos(scheduled_tasks, b)) =>
         Pos(scheduled_tasks', a) < Pos(scheduled_tasks', b)
  /\ op'.name = "resume" =>
       /\ scheduled_tasks # <<>>
       /\ op'.task = Head(scheduled_tasks).key
       /\ scheduled_tasks' = Tail(scheduled_tasks)

\* the step is an await of NullTrigger by task t
AwaitsNull(t) ==
  op'.name \in {"yield", "event_wait"} /\ op'.task = t /\ op'.trigger = Null(t)

\* a task that a NullTrigger put in the run queue
QueuedByNull(t) == HasKey(scheduled_tasks, t) /\ wokeBy[t] = Null(t)

StartsSoon(t, u) ==
  /\ op'.name = "start_soon" /\ op'.task = t /\ op'.tgt = u
  /\ state[u] = "UNSTARTED"

\* C26: start_soon ordering. start_soon puts the new task at the tail of the
\* run queue and returns to the caller, which keeps running; no task is
\* resumed while a task is running, the run queue is first in, first out and
\* only its head is resumed, so the first resumption of the new task comes
\* after the caller's next yield and after that of every task that was in
\* the run queue when start_soon was called.
C26_StartSoonOrdering ==
  [][ /\ \A t, u \in Tasks :
           StartsSoon(t, u) =>
             /\ ~op'.raised
             /\ scheduled_tasks' = Append(scheduled_tasks, [key |-> u, val |-> "Value"])
             /\ state'[u] = "SCHEDULED"
             /\ ctl' = "task" /\ current_task' = t /\ state'[t] = "RUNNING"
      /\ op'.name = "resume" => (ctl = "loop" /\ current_task = NoTask)
      /\ \A u \in Tasks :
           (state[u] = "SCHEDULED" /\ state'[u] = "RUNNING") =>
             (op'.name = "resume" /\ op'.task = u)
      /\ QueueIsFifo ]_vars

\* C26 witness: t1 called start_soon(t3) while t2 was in the run queue; t3
\* is queued behind t2 and t1 is still running.
C26_Witness ==
  /\ op.name = "start_soon" /\ op.task = "t1" /\ op.tgt = "t3"
  /\ [i \in DOMAIN scheduled_tasks |-> scheduled_tasks[i].key] = <<"t2", "t3">>
  /\ state["t3"] = "SCHEDULED"
  /\ ctl = "task" /\ current_task = "t1"


\* the step is `await start(u)` by the running task t
Starts(t, u) == op'.name = "start" /\ op'.task = t /\ op'.tgt = u

\* a task that is in the run queue for its first resumption or after a
\* NullTrigger
QueuedToRun(t) ==
  HasKey(scheduled_tasks, t) /\ wokeBy[t] \in {NoTrig, Null(t)}

RECURSIVE Registered(_, _)
Registered(cbs, Xs) ==
  IF Xs = {} THEN 0
  ELSE LET X == CHOOSE Y \in Xs : TRUE
       IN cbs[X] + Registered(cbs, Xs \ {X})

\* C29: No callbacks after shutdown. While the terminate flag is set no
\* simulator callback is registered and no trigger becomes primed; a task
\* that yields a trigger or a task then is left as it is, nothing is primed
\* or queued for it. When the termination sequence has finished no simulator
\* callback is registered and no trigger is primed.
C29_NoCallbacksAfterShutdown ==
  [][ /\ terminate =>
           /\ \A X \in GPITriggers : sim_cbs'[X] <= sim_cbs[X]
           /\ \A X \in GPITriggers : cbhdl'[X] => cbhdl[X]
           /\ \A X \in Triggers : primed'[X] => primed[X]
      /\ (terminate /\ op'.name \in {"yield", "yield_task", "yield_bad"}) =>
           /\ UNCHANGED <<trigger2tasks, scheduled_tasks, primed, cbhdl, sim_cbs>>
           /\ state'[op'.task] = "RUNNING"
      /\ op'.name = "terminate" =>
           /\ Registered(sim_cbs', GPITriggers) = 0
           /\ \A X \in GPITriggers : ~cbhdl'[X]
           /\ \A X \in Triggers : ~primed'[X] ]_vars

\* C29 witness: after shutdown_soon a task yielded NextTimeStep; the trigger
\* was not primed, nothing was registered for it and the task has no entry
\* in the map, while the callback of another trigger is still registered.
C29_Witness ==
  /\ terminate
  /\ op.name = "yield" /\ op.trigger = NTS
  /\ state[op.task] = "RUNNING"
  /\ ~primed[NTS] /\ sim_cbs[NTS] = 0
  /\ ~HasKey(trigger2tasks, NTS)
  /\ Registered(sim_cbs, GPITriggers) = 1
  /\ ctl = "loop"


\* the write-forcing task _do_writes has not ended
WriteTaskAlive == ~IsDone(state[WriteTask])

\* C30: ReadWrite is forced while writes are pending. Whenever the simulator
\* has control, _do_writes is alive and the pending-writes map is not empty,
\* _do_writes waits on ReadWrite, which is primed and has its simulator
\* callback registered.
C30_ReadWriteForced ==
  (ctl = "sim" /\ WriteTaskAlive /\ write_calls # <<>>) =>
    /\ primed[RW]
    /\ cbhdl[RW]
    /\ sim_cbs[RW] = 1
    /\ trig[WriteTask] = RW
    /\ HasKey(trigger2tasks, RW)
    /\ WriteTask \in Range(Get(trigger2tasks, RW))

\* C30 witness: control returned to the simulator with a pending write while
\* a user task waits on NextTimeStep; ReadWrite is registered for _do_writes
\* only.
C30_Witness ==
  /\ ctl = "sim" /\ op.name = "return"
  /\ write_calls # <<>>
  /\ WriteTaskAlive
  /\ sim_cbs[RW] = 1
  /\ HasKey(trigger2tasks, RW) /\ Get(trigger2tasks, RW) = <<WriteTask>>
  /\ sim_cbs[NTS] = 1


\* the write of v to handle h is in the pending-writes map
IsPending(h, v) == HasKey(write_calls, h) /\ Get(write_calls, h) = v

\* the step that led to this state invoked the write of v to h, in a flush
AppliedNow(h, v) == FiredRW(op) /\ <<h, v>> \in Range(wout)

\* the step that led to this state was a later schedule_write to h
SupersededNow(h) ==
  op.name = "schedule_write" /\ ~op.raised /\ op.write[1] = h

\* C31: Write liveness. If the simulator eventually fires every registered
\* callback and the run is not ended by a request to exit, every write
\* scheduled in the Normal phase is eventually applied by a flush, unless a
\* later write to the same handle supersedes it.
C31_WriteLiveness ==
  \A h \in Handles, v \in Vals :
    IsPending(h, v) ~> (AppliedNow(h, v) \/ SupersededNow(h) \/ ctl = "exit")

\* C31 witness: a write that was pending has been applied by the flush at a
\* firing of ReadWrite.
C31_Witness ==
  /\ AppliedNow("b", 2)
  /\ wflushed # <<>>
  /\ ~IsPending("b", 2)


\* the action the simulator is asked for by set(obj)
ActionOf(obj) ==
  CASE obj.cls \in {"int", "Deposit"} -> "DEPOSIT"
    [] obj.cls \in {"Force", "Freeze"} -> "FORCE"
    [] obj.cls = "Release" -> "RELEASE"

\* the stored call w carries the value that set(obj) names: the integer
\* given, or for Freeze the value the signal held when set was called
CarriesValueOf(w, obj, cur) ==
  CASE obj.cls \in {"int", "Deposit", "Force"} ->
         w.func = "set_signal_val_int" /\ w.n = obj.value
    [] obj.cls = "Freeze" ->
         w.func = "set_signal_val_binstr" /\ w.bin = cur
    [] obj.cls = "Release" -> TRUE

\* C32: Write-action mapping. A set(obj) that returns has handed to
\* schedule_write, under its handle, the action DEPOSIT for a plain value or
\* Deposit(v), FORCE for Force(v) and for Freeze(), RELEASE for Release(),
\* with the value v given or, for Freeze(), the value the handle had when set
\* was called. In the Normal phase the pending map then holds exactly one
\* entry for the handle, which is this call: it replaced any earlier one.
C32_WriteActionMapping ==
  (op.name = "set" /\ ~op.raised) =>
    LET h == op.write[1]
        obj == op.arg[1]
        cur == op.arg[2]
    IN IF sim_phase = "NORMAL"
       THEN /\ Cardinality({i \in DOMAIN write_calls : write_calls[i].key = h}) = 1
            /\ Get(write_calls, h).action = ActionOf(obj)
            /\ CarriesValueOf(Get(write_calls, h), obj, cur)
            /\ wlog # <<>>
            /\ wlog[Len(wlog)] = <<h, Get(write_calls, h)>>
       ELSE /\ wout # <<>>
            /\ wout[Len(wout)][1] = h
            /\ wout[Len(wout)][2].action = ActionOf(obj)
            /\ CarriesValueOf(wout[Len(wout)][2], obj, cur)

\* a Freeze on "a" has replaced the deposit of 1 that was pending for "a"
C32_Witness ==
  /\ op.name = "set" /\ ~op.raised
  /\ op.write = <<"a">>
  /\ op.arg = <<Freeze, <<"1", "X">>>>
  /\ sim_phase = "NORMAL"
  /\ Len(wlog) = 2
  /\ wlog[1] = <<"a", WriteCall("set_signal_val_int", "DEPOSIT", 1, <<>>)>>
  /\ write_calls = <<[key |-> "a",
                      val |-> WriteCall("set_signal_val_binstr", "FORCE", 0, <<"1", "X">>)]>>


\* the pending-writes map as the calls a flush makes, in order
PendingCalls == [i \in DOMAIN write_calls |-> <<write_calls[i].key, write_calls[i].val>>]

\* the tasks that wait on trigger X
WaitersOf(X) == IF HasKey(trigger2tasks, X) THEN Range(Get(trigger2tasks, X)) ELSE {}

\* C33: ReadWrite arrival ordering. When the simulator delivers ReadWrite the
\* phase becomes ReadWrite and every pending write is applied, in map order,
\* leaving the map empty, while the waiters of ReadWrite are only queued: none
\* of them has run. Delivery of ReadOnly sets the phase ReadOnly, delivery of
\* any other simulator trigger sets it Normal, and neither applies a write.
C33_ReadWriteArrival ==
  [][op'.name = "fire" =>
       IF op'.trigger = RW
       THEN /\ sim_phase' = "READ_WRITE"
            /\ wout' = wout \o PendingCalls
            /\ write_calls' = <<>>
            /\ current_task' = NoTask
            /\ \A t \in WaitersOf(RW) :
                 /\ state'[t] = "SCHEDULED"
                 /\ HasKey(scheduled_tasks', t)
       ELSE /\ sim_phase' = (IF op'.trigger = RO THEN "READ_ONLY" ELSE "NORMAL")
            /\ UNCHANGED <<write_calls, wout>>]_vars

\* ReadWrite arrived with a write pending and two waiters: the write is
\* applied, the write task and the user task are queued, nothing has run
C33_Witness ==
  /\ FiredRW(op)
  /\ sim_phase = "READ_WRITE"
  /\ wout = <<<<"a", 1>>>>
  /\ write_calls = <<>>
  /\ Keys(scheduled_tasks) = {WriteTask, "t1"}
  /\ current_task = NoTask


\* the waiter list of trigger X
WaiterList(m, X) == IF HasKey(m, X) THEN Get(m, X) ELSE <<>>

\* the step is a yield of task u by task t, treated as the claim describes
JoinsTask ==
  LET t == op'.task
      u == op'.tgt
  IN IF state[u] = "UNSTARTED"
     THEN /\ QueueOrder(scheduled_tasks') = Append(QueueOrder(scheduled_tasks), u)
          /\ state'[u] = "SCHEDULED"
          /\ WaiterList(trigger2tasks', TC(u)) = Append(WaiterList(trigger2tasks, TC(u)), t)
          /\ state'[t] = "PENDING" /\ trig'[t] = TC(u)
     ELSE IF state[u] \in {"FINISHED", "CANCELLED"}
     THEN /\ QueueOrder(scheduled_tasks') = Append(QueueOrder(scheduled_tasks), t)
          /\ state'[t] = "SCHEDULED"
          /\ t \notin Range(WaiterList(trigger2tasks', TC(u)))
     ELSE /\ scheduled_tasks' = scheduled_tasks
          /\ WaiterList(trigger2tasks', TC(u)) = Append(WaiterList(trigger2tasks, TC(u)), t)
          /\ state'[t] = "PENDING" /\ trig'[t] = TC(u)

WaitsOn(t) == {X \in Keys(trigger2tasks) : t \in Range(Get(trigger2tasks, X))}

\* the number of places task t takes in the waiter lists
WaiterPlaces(t) ==
  Cardinality({<<i, j>> \in (DOMAIN trigger2tasks) \X (1..Cardinality(Tasks)) :
                 j \in DOMAIN trigger2tasks[i].val /\ trigger2tasks[i].val[j] = t})

InRunQueue(t) == HasKey(scheduled_tasks, t)

QueuedIffScheduled == \A t \in Tasks : InRunQueue(t) <=> state[t] = "SCHEDULED"
WaitingIffPending == \A t \in Tasks : WaitsOn(t) # {} <=> state[t] = "PENDING"
RunningIsCurrent == \A t \in Tasks : state[t] = "RUNNING" => current_task = t
OnePlace == \A t \in Tasks : ~(InRunQueue(t) /\ WaitsOn(t) # {}) /\ WaiterPlaces(t) <= 1

\* C35: Task state agrees with the scheduler structures. In every state a
\* task is in the run queue iff it is Scheduled and in a waiter list iff it is
\* Pending, a Running task is the current task, and no task is in the run
\* queue and a waiter list at once or takes two places in the waiter lists.
C35_TaskStateAgrees ==
  /\ QueuedIffScheduled
  /\ WaitingIffPending
  /\ RunningIsCurrent
  /\ OnePlace

\* a task that awaited after shutdown_soon is Running while no task is current
C35_Witness ==
  /\ ctl = "loop" /\ terminate
  /\ current_task = NoTask
  /\ state["t1"] = "RUNNING"
  /\ ~InRunQueue("t1") /\ WaitsOn("t1") = {}


\* C36: Back-reference consistency. The trigger a task records as the one it
\* waits on is X iff the task stands in the waiter list of X; a task that is
\* in no waiter list records none, also after a priming failure and while it
\* is in the run queue.
C36_BackReference ==
  \A t \in Tasks :
    /\ \A X \in WaitsOn(t) : trig[t] = X
    /\ trig[t] # NoTrig => trig[t] \in WaitsOn(t)

\* priming failed: the task is queued with the error and waits on nothing,
\* yet it still records the trigger that refused it
C36_Witness ==
  /\ op.name = "yield" /\ op.primeRaised
  /\ op.task = "t1"
  /\ InRunQueue("t1")
  /\ WaitsOn("t1") = {}
  /\ trig["t1"] = op.trigger


\* task t was ended by kill() (outcome Value(None)) or by cancel() (no
\* outcome), and its coroutine is closed
EndedByCall(t) == coro[t] = "closed" /\ outcome[t] \in {"ValueNone", "None"}

\* the step is a kill or cancel of a task that is the only waiter of a
\* simulator-bound trigger
EndsOnlyWaiter ==
  /\ op'.name \in {"kill", "cancel"}
  /\ ~IsDone(state[op'.tgt])
  /\ trig[op'.tgt] \in GPITriggers
  /\ WaiterList(trigger2tasks, trig[op'.tgt]) = <<op'.tgt>>

\* C37: A cancelled or killed task never runs again. Once cancel() or kill()
\* has ended a task no step resumes it and no step puts it in the run queue,
\* whether its trigger fires or an Event is set; and the call that ends the
\* only waiter of a simulator-bound trigger deregisters the callback.
C37_EndedNeverRunsAgain ==
  [][ /\ \A t \in Tasks : EndedByCall(t) =>
             /\ ~(op'.name = "resume" /\ op'.task = t)
             /\ ~HasKey(scheduled_tasks', t)
      /\ EndsOnlyWaiter => sim_cbs'[trig[op'.tgt]] = 0 ]_vars

\* a task that was killed has been resumed: start_soon queued it again
C37_Witness ==
  /\ op.name = "resume"
  /\ ctl = "task" /\ current_task = op.task
  /\ state[op.task] = "RUNNING"
  /\ coro[op.task] = "closed" /\ outcome[op.task] = "ValueNone"


\* C38: No live task survives termination. In the state that the termination
\* sequence leaves, every task that was ever started is Finished or
\* Cancelled, the task that called shutdown_soon and then awaited included.
C38_NoLiveTaskAfterTermination ==
  op.name = "terminate" =>
    \A t \in Tasks : state[t] # "UNSTARTED" => IsDone(state[t])

\* the termination sequence has run and completed the test, the write task
\* was killed, and the task that called shutdown_soon is still Running
C38_Witness ==
  /\ op.name = "terminate" /\ op.completed = 1
  /\ ~terminate
  /\ state[WriteTask] = "FINISHED"
  /\ state["t1"] = "RUNNING" /\ coro["t1"] = "live"
  /\ scheduled_tasks = <<>> /\ trigger2tasks = <<>>


\* C39: Pending flag tracks pending map. In every state the writes-pending
\* event is set iff the pending-writes map is not empty.
C39_PendingFlagTracksMap == wp_fired <=> write_calls # <<>>

\* stop_write_scheduler found a write pending: the map is empty, the event
\* is clear and the write task is killed
C39_Witness ==
  /\ op.name = "stop_write_scheduler"
  /\ op.write # <<>>
  /\ write_calls = <<>> /\ ~wp_fired
  /\ state[WriteTask] = "FINISHED" /\ outcome[WriteTask] = "ValueNone"


\* the step is an await of ReadWrite by the write task
WriteTaskAwaitsRW ==
  op'.name = "yield" /\ op'.task = WriteTask /\ op'.trigger = RW

\* the write task newly becomes done
WriteTaskEnds == IsDone(state'[WriteTask]) /\ ~IsDone(state[WriteTask])

\* the termination sequence kills the write task
KilledByTermination ==
  terminate /\ op'.name = "terminate" /\ outcome'[WriteTask] = "ValueNone"

====
